---------------------------- MODULE Spec2Model ----------------------------
(***************************************************************************)
(* A model of BFT-RFForensics' adversarial actor-critic learner            *)
(* (src/src/learner/learner.py) and of its graph-attention agent network   *)
(* (src/src/module/agents/dgn_agent.py).                                   *)
(*                                                                         *)
(* Five specifications share the variables below:                          *)
(*   SpecParse    _parse_input_message / list_rev_onehot on one message    *)
(*   SpecMask     the validity mask built at the start of train            *)
(*   SpecLearner  SeparateLearner: train, save_models, load_models         *)
(*   SpecShape    DGNAgent.__init__ / _get_input_shape                     *)
(*   SpecAgent    DGNAgent.forward on two runs of a 3-agent input          *)
(* A variable a specification does not use keeps the value Unused.         *)
(*                                                                         *)
(* Python's failures are modelled as they happen: reading an attribute an  *)
(* object does not have raises AttributeError, reading an unbound name     *)
(* raises NameError, and the exception ends the running call with the      *)
(* assignments made so far kept (variable exc names the exception).  An    *)
(* attribute that may be unassigned holds Unbound or Bound(value).           *)
(***************************************************************************)
EXTENDS Integers, Sequences, FiniteSets, TLC

VARIABLES
    pc,          \* position of the running call ("idle" between calls)
    args,        \* the configuration object (args.*) of the specification
    exc,         \* exception that ended the last call, or "none"
    \* ---- _parse_input_message
    msg_input,   \* the message vector being decoded
    idx,         \* the running offset idx of _parse_input_message
    msg,         \* the decoded fields appended so far
    segs,        \* index range [lo, hi) each slice actually read
    \* ---- validity mask
    filled,      \* batch["filled"] of one episode, length T
    terminated,  \* batch["terminated"] of one episode, length T
    mask,        \* the mask tensor of train, length T-1
    \* ---- SeparateLearner
    last_target_update_episode,
    last_target_update_step,
    critic_training_steps,
    log_stats_t,
    mac,         \* online controller parameters
    target_mac,  \* target controller parameters
    critic,      \* online critic parameters
    target_critic,
    identifier_optimiser,
    attacker_optimiser,
    critic_optimiser,
    disk,        \* files of the checkpoint directories: path -> name -> value
    call,        \* the running (or last) call: its name, arguments, pre-state
    identifier_actions, \* batch["identifier_action"][:, :-1] of the call
    t,           \* loop index of the backward critic loop
    running_log, \* the five running-log sequences of _train_critic
    critic_hidden, \* number of online-critic forward passes threaded so far
    visited,     \* time steps the critic loop has visited, in order
    identifier_loss, \* the identifier loss of the call, Unbound until computed
    attacker_loss,   \* the attacker loss of the call, Unbound until computed
    logger,      \* logger calls made so far, in order: <<name, t_env>>
    reads,       \* files the last load_models tried to read
    \* ---- DGNAgent
    scheme,      \* the data scheme handed to DGNAgent.__init__
    agent,       \* the DGNAgent object: its bound attributes and their values
    input_shape, \* encoder input width computed by _get_input_shape
    x,           \* observations of the two runs: run -> agent -> value
    att_mask,    \* the [n_agents, n_agents] visibility mask
    h1, h2, h3,  \* per-run embeddings after encoder, att_1, att_2
    q            \* per-run Q-values

parseVars   == <<msg_input, idx, msg, segs>>
maskVars    == <<filled, terminated, mask>>
selfVars    == <<last_target_update_episode, last_target_update_step,
                 critic_training_steps, log_stats_t>>
netVars     == <<mac, target_mac, critic, target_critic, identifier_optimiser,
                 attacker_optimiser, critic_optimiser>>
trainVars   == <<call, identifier_actions, t, running_log, critic_hidden,
                 visited, identifier_loss, attacker_loss, logger>>
learnerVars == <<selfVars, netVars, trainVars, disk, reads>>
agentVars   == <<scheme, agent, input_shape, x, att_mask, h1, h2, h3, q>>
vars == <<pc, args, exc, parseVars, maskVars, learnerVars, agentVars>>

Unused == <<>>

UnusedParse   == msg_input = Unused /\ idx = Unused /\ msg = Unused /\ segs = Unused
UnusedMask    == filled = Unused /\ terminated = Unused /\ mask = Unused
UnusedLearner ==
    /\ last_target_update_episode = Unused
    /\ last_target_update_step = Unused /\ critic_training_steps = Unused
    /\ log_stats_t = Unused /\ mac = Unused /\ target_mac = Unused
    /\ critic = Unused /\ target_critic = Unused /\ identifier_optimiser = Unused
    /\ attacker_optimiser = Unused /\ critic_optimiser = Unused /\ disk = Unused
    /\ call = Unused /\ identifier_actions = Unused /\ t = Unused
    /\ running_log = Unused /\ critic_hidden = Unused /\ visited = Unused
    /\ identifier_loss = Unused /\ attacker_loss = Unused
    /\ logger = Unused /\ reads = Unused
UnusedAgent   ==
    /\ scheme = Unused /\ agent = Unused /\ input_shape = Unused /\ x = Unused /\ att_mask = Unused
    /\ h1 = Unused /\ h2 = Unused /\ h3 = Unused /\ q = Unused

(***************************************************************************)
(* Python helpers                                                          *)
(***************************************************************************)
Min(a, b) == IF a <= b THEN a ELSE b
Max(a, b) == IF a >= b THEN a ELSE b

\* seq[a:b] for 0 <= a: the elements at the 0-based indices a .. min(b, len)-1
Slice(s, a, b) == SubSeq(s, a + 1, Min(b, Len(s)))

\* the 0-based index range [lo, hi) that seq[a:b] reads
SliceRange(s, a, b) == [lo |-> Min(a, Len(s)), hi |-> Max(Min(a, Len(s)), Min(b, Len(s)))]

\* seq[a:]
SliceFrom(s, a) == SubSeq(s, a + 1, Len(s))

(***************************************************************************)
(* SpecParse: _parse_input_message and list_rev_onehot                     *)
(***************************************************************************)
MaxWidth == 2       \* largest value of each of the five configured widths

num_msg_type == 10  \* no client type, 9 is no-op

\* One-hot/category decoder of components.action_selectors: the argmax index
\* (the first one on ties), 0-based.
rev_onehot(v) ==
    IF Len(v) = 0 THEN 0
    ELSE (CHOOSE i \in 1..Len(v) :
            /\ \A j \in 1..Len(v) : v[j] <= v[i]
            /\ \A j \in 1..(i - 1) : v[j] < v[i]) - 1

\* list_rev_onehot gone wrong: the second element of each pair is tested
list_rev_onehot_second(v) ==
    [i \in 1..(Len(v) \div 2) |-> IF v[2 * (i - 1) + 2] = 1 THEN 1 ELSE 0]

\* list_rev_onehot: one flag per pair, 1 iff the pair's first element is 1
list_rev_onehot(v) ==
    [i \in 1..(Len(v) \div 2) |-> IF v[2 * (i - 1) + 1] = 1 THEN 1 ELSE 0]

\* the documented width of one message vector
MsgWidth(a) ==
    10 + a.num_malicious + a.max_view_num + a.max_seq_num + a.total_client_vals
       + a.n_peers + 2 * a.n_peers

ParseArgs ==
    [num_malicious : 1..MaxWidth, max_view_num : 1..MaxWidth,
     max_seq_num : 1..MaxWidth, total_client_vals : 1..MaxWidth,
     n_peers : 1..MaxWidth]

\* a one-hot vector of width w with position k (0-based, wrapped) set
OneHot(w, k) == [i \in 1..w |-> IF i - 1 = k % w THEN 1 ELSE 0]

\* the messages enumerated: six one-hot fields, then any 0/1 certificate bits
Messages(a) ==
    { OneHot(10, k) \o OneHot(a.num_malicious, k) \o OneHot(a.max_view_num, k)
        \o OneHot(a.max_seq_num, k) \o OneHot(a.total_client_vals, k)
        \o OneHot(a.n_peers, k) \o c :
        k \in 0..1, c \in [1..(2 * a.n_peers) -> {0, 1}] }

InitParse ==
    /\ pc = "msg_type"
    /\ exc = "none"
    /\ args \in ParseArgs
    /\ msg_input \in Messages(args)
    /\ idx = 0
    /\ msg = <<>>
    /\ segs = <<>>
    /\ UnusedMask /\ UnusedLearner /\ UnusedAgent

ParseFrame == UNCHANGED <<args, exc, msg_input, maskVars, learnerVars, agentVars>>

\* msg_type_input = msg_input[idx: num_msg_type]  (idx = 0)
ParseMsgType ==
    /\ pc = "msg_type"
    /\ msg' = Append(msg, rev_onehot(Slice(msg_input, idx, num_msg_type)))
    /\ segs' = Append(segs, SliceRange(msg_input, idx, num_msg_type))
    /\ idx' = num_msg_type
    /\ pc' = "sender_id"
    /\ ParseFrame

\* one categorical field of configured width w, then idx += w
ParseField(here, w, next) ==
    /\ pc = here
    /\ msg' = Append(msg, rev_onehot(Slice(msg_input, idx, idx + w)))
    /\ segs' = Append(segs, SliceRange(msg_input, idx, idx + w))
    /\ idx' = idx + w
    /\ pc' = next
    /\ ParseFrame

ParseSenderId   == ParseField("sender_id", args.num_malicious, "view_num")
ParseViewNum    == ParseField("view_num", args.max_view_num, "seq_num")
ParseSeqNum     == ParseField("seq_num", args.max_seq_num, "val")
ParseVal        == ParseField("val", args.total_client_vals, "receiver_id")
ParseReceiverId == ParseField("receiver_id", args.n_peers, "certificate")

\* certificate_input = msg_input[idx:]
ParseCertificate ==
    /\ pc = "certificate"
    /\ msg' = Append(msg, list_rev_onehot(SliceFrom(msg_input, idx)))
    /\ segs' = Append(segs, SliceRange(msg_input, idx, Len(msg_input)))
    /\ idx' = idx
    /\ pc' = "parsed"
    /\ ParseFrame

NextParse ==
    \/ ParseMsgType
    \/ ParseSenderId
    \/ ParseViewNum
    \/ ParseSeqNum
    \/ ParseVal
    \/ ParseReceiverId
    \/ ParseCertificate

SpecParse == InitParse /\ [][NextParse]_vars

\* C7: for a message of the documented width, _parse_input_message reads seven
\* contiguous segments, in the order type, sender, view, sequence, client
\* value, receiver, certificate, of the configured widths; their index ranges
\* are pairwise disjoint and cover every index of the vector exactly once; and
\* the certificate decodes to n_peers flags, flag i being 1 iff the element at
\* certificate offset 2*i is 1.
C7_SegmentWidths ==
    <<10, args.num_malicious, args.max_view_num, args.max_seq_num,
      args.total_client_vals, args.n_peers, 2 * args.n_peers>>

C7_DecodeCompleteness ==
    pc = "parsed" =>
        /\ Len(msg_input) = MsgWidth(args)
        /\ Len(segs) = 7 /\ Len(msg) = 7
        /\ segs[1].lo = 0
        /\ \A i \in 1..6 : segs[i + 1].lo = segs[i].hi
        /\ \A i \in 1..7 : segs[i].hi - segs[i].lo = C7_SegmentWidths[i]
        /\ \A j \in 0..(Len(msg_input) - 1) :
               Cardinality({i \in 1..7 : segs[i].lo <= j /\ j < segs[i].hi}) = 1
        /\ Len(msg[7]) = args.n_peers
        /\ \A i \in 0..(args.n_peers - 1) :
               (msg[7][i + 1] = 1) <=> (msg_input[segs[7].lo + 2 * i + 1] = 1)
        /\ \A i \in 1..args.n_peers : msg[7][i] \in {0, 1}

\* a message with two peers whose certificate includes the first peer only
\* (its second pair is <<0, 1>>) has been decoded
C7_Witness ==
    /\ pc = "parsed"
    /\ args.n_peers = 2 /\ args.num_malicious = 2
    /\ msg[7] = <<1, 0>>
    /\ SliceFrom(msg_input, segs[7].lo) = <<1, 0, 0, 1>>

(***************************************************************************)
(* SpecMask: the validity mask of train (one episode of the batch)         *)
(***************************************************************************)
MaxSeqLen == 4      \* largest batch.max_seq_length enumerated

\* tensor[:, :-1] along the time axis
DropLast(s) == SubSeq(s, 1, Len(s) - 1)

\* the mask gone wrong: the terminated flag of the same step is used
BuildMaskSameStep(f, term) ==
    LET m    == DropLast(f)
        term1 == DropLast(term)
    IN  [i \in 1..Len(m) |-> IF i = 1 THEN m[i] ELSE m[i] * (1 - term1[i])]

\* terminated = batch["terminated"][:, :-1]
\* mask = batch["filled"][:, :-1]
\* mask[:, 1:] = mask[:, 1:] * (1 - terminated[:, :-1])
BuildMask(f, term) ==
    LET m     == DropLast(f)
        term1 == DropLast(term)
    IN  [i \in 1..Len(m) |-> IF i = 1 THEN m[i] ELSE m[i] * (1 - term1[i - 1])]

InitMask ==
    /\ pc = "train"
    /\ exc = "none"
    /\ args = Unused
    /\ \E T \in 2..MaxSeqLen :
          /\ filled \in [1..T -> {0, 1}]
          /\ terminated \in [1..T -> {0, 1}]
    /\ mask = <<>>
    /\ UnusedParse /\ UnusedLearner /\ UnusedAgent

TrainBuildMask ==
    /\ pc = "train"
    /\ mask' = BuildMask(filled, terminated)
    /\ pc' = "masked"
    /\ UNCHANGED <<args, exc, filled, terminated, parseVars, learnerVars, agentVars>>

NextMask == TrainBuildMask

SpecMask == InitMask /\ [][NextMask]_vars

\* 0-based time steps of the tensors sliced to length T-1
MaskSteps == 0..(Len(filled) - 2)

\* the 0-based step s carries the terminated flag
TerminatedAt(s) == terminated[s + 1] = 1

\* C9, as stated: mask[0] = filled[0]; mask[t] = 0 for every step t after the
\* first step at which the terminated flag is set, whatever filled is; and
\* mask[t] = filled[t] for every step with no earlier terminated flag.
C9_AsStated ==
    pc = "masked" =>
        /\ mask[1] = filled[1]
        /\ \A step \in MaskSteps :
              IF \E s \in MaskSteps : s < step /\ TerminatedAt(s)
              THEN mask[step + 1] = 0
              ELSE mask[step + 1] = filled[step + 1]

\* C9, amended: the mask has length T-1 and mask[0] = filled[0]; mask[t] = 0 for
\* every step t whose immediately preceding step carries the terminated flag,
\* and mask[t] = filled[t] for every other step, so in particular for every
\* step with no earlier terminated flag.
C9_ValidityMask ==
    pc = "masked" =>
        /\ Len(mask) = Len(filled) - 1
        /\ mask[1] = filled[1]
        /\ \A step \in MaskSteps \ {0} :
              IF TerminatedAt(step - 1)
              THEN mask[step + 1] = 0
              ELSE mask[step + 1] = filled[step + 1]
        /\ \A step \in MaskSteps :
              (~ \E s \in MaskSteps : s < step /\ TerminatedAt(s))
                  => mask[step + 1] = filled[step + 1]

\* an episode filled on every step whose first step is terminal: the step
\* right after it is masked out, the one after that is not
C9_Witness ==
    /\ pc = "masked"
    /\ filled = <<1, 1, 1, 1>>
    /\ terminated = <<1, 0, 0, 0>>
    /\ mask = <<1, 0, 1>>

(***************************************************************************)
(* SpecShape: DGNAgent.__init__ and _get_input_shape                       *)
(***************************************************************************)
MaxObsWidth == 3    \* largest scheme["obs"]["vshape"] enumerated
MaxActWidth == 3    \* largest scheme["actions_onehot"]["vshape"][0] enumerated

\* the outcome of a call: the exception it raised ("none") and its value
Return(v)  == [exc |-> "none", val |-> v]
Raise(e)   == [exc |-> e, val |-> Unused]

\* obj.name: the attribute's value, or AttributeError when obj has none
GetAttr(obj, name) ==
    IF name \in DOMAIN obj THEN Return(obj[name]) ELSE Raise("AttributeError")

\* _get_input_shape: the widths are added in the order obs, last action,
\* agent id, pq; the last two read self.n_agents
GetInputShape(self, sch) ==
    LET a  == self.args
        s0 == sch.obs.vshape
        s1 == IF a.obs_last_action THEN s0 + sch.actions_onehot.vshape[1] ELSE s0
    IN  IF a.obs_agent_id /\ GetAttr(self, "n_agents").exc # "none"
        THEN Raise("AttributeError")
        ELSE LET s2 == IF a.obs_agent_id THEN s1 + self.n_agents ELSE s1
             IN  IF a.type = "pq" /\ GetAttr(self, "n_agents").exc # "none"
                 THEN Raise("AttributeError")
                 ELSE Return(IF a.type = "pq"
                             THEN s2 + self.n_agents * self.n_agents * 2 ELSE s2)

ShapeArgs ==
    [n_agents : {4}, hidden_dim : {1}, n_actions : {2},
     obs_last_action : BOOLEAN, obs_agent_id : BOOLEAN, type : {"pq", "rnn"}]

Schemes ==
    { [obs |-> [vshape |-> o], actions_onehot |-> [vshape |-> <<a>>]] :
        o \in 1..MaxObsWidth, a \in 1..MaxActWidth }

InitShape ==
    /\ pc = "new"
    /\ exc = "none"
    /\ args \in ShapeArgs
    /\ scheme \in Schemes
    /\ agent = Unused
    /\ input_shape = Unused
    /\ x = Unused /\ att_mask = Unused
    /\ h1 = Unused /\ h2 = Unused /\ h3 = Unused /\ q = Unused
    /\ UnusedParse /\ UnusedMask /\ UnusedLearner

\* DGNAgent.__init__: self.args is bound, then the input width is computed, then
\* the four sub-modules are built
DGNAgentInit ==
    /\ pc = "new"
    /\ LET self == [args |-> args]
           r    == GetInputShape(self, scheme)
       IN  IF r.exc # "none"
           THEN /\ agent' = self
                /\ input_shape' = input_shape
                /\ exc' = r.exc
                /\ pc' = "raised"
           ELSE /\ agent' = [args |-> args, encoder |-> r.val,
                              att_1 |-> args.hidden_dim, att_2 |-> args.hidden_dim,
                              q_net |-> args.n_actions]
                /\ input_shape' = r.val
                /\ exc' = "none"
                /\ pc' = "constructed"
    /\ UNCHANGED <<args, scheme, x, att_mask, h1, h2, h3, q,
                   parseVars, maskVars, learnerVars>>

NextShape == DGNAgentInit

SpecShape == InitShape /\ [][NextShape]_vars

\* the documented encoder input width
DocumentedWidth ==
    scheme.obs.vshape
      + (IF args.obs_last_action THEN scheme.actions_onehot.vshape[1] ELSE 0)
      + (IF args.obs_agent_id THEN args.n_agents ELSE 0)
      + (IF args.type = "pq" THEN 2 * args.n_agents * args.n_agents ELSE 0)

\* C5: with n_agents = 4, constructing the agent succeeds for all eight
\* combinations of obs_last_action, obs_agent_id and type, and the encoder
\* input width is the observation width plus the one-hot action width if
\* obs_last_action, plus n_agents if obs_agent_id, plus 2*n_agents*n_agents if
\* type is "pq".
C5_InputWidth ==
    pc # "new" =>
        /\ pc = "constructed"
        /\ exc = "none"
        /\ input_shape = DocumentedWidth

(***************************************************************************)
(* SpecAgent: DGNAgent.forward on two runs of one 3-agent input            *)
(*                                                                         *)
(* Arithmetic is on integers with hidden_dim = 1.  The softmax's           *)
(* exponential is taken to base 2 and relative to the smallest logit of    *)
(* the row that does not underflow, which keeps the weights' ratios; a     *)
(* logit ExpRange or more below the row's maximum gets weight 0, as        *)
(* exp underflows to 0 in floating point; the attention-weighted mean is   *)
(* rounded down.                                                           *)
(***************************************************************************)
NAgents == 3            \* args.n_agents of the 3-agent input
MaskBias == 1000000     \* the bias 9e15 of AttModel.forward, in model units
ExpRange == 104         \* exp(-d) underflows to 0 for d >= ExpRange (float32)

Agents == 0..(NAgents - 1)
Runs == {"a", "b"}

relu(v) == IF v > 0 THEN v ELSE 0

\* nn.Linear with one input and one output feature
Linear(l, v) == l.w * v + l.b

RECURSIVE Pow2(_)
Pow2(n) == IF n <= 0 THEN 1 ELSE 2 * Pow2(n - 1)

RECURSIVE SumOver(_, _)
SumOver(S, f) ==
    IF S = {} THEN 0
    ELSE LET e == CHOOSE e \in S : TRUE IN f[e] + SumOver(S \ {e}, f)

SetMax(S) == CHOOSE m \in S : \A e \in S : e <= m
SetMin(S) == CHOOSE m \in S : \A e \in S : m <= e

\* F.softmax(logits, dim=2) for one row, as unnormalised integer weights
SoftmaxWeights(logits) ==
    LET top  == SetMax({logits[j] : j \in Agents})
        live == {j \in Agents : top - logits[j] < ExpRange}
        low  == SetMin({logits[j] : j \in live})
    IN  [j \in Agents |-> IF j \in live THEN Pow2(logits[j] - low) ELSE 0]

\* AttModel.forward gone wrong: the mask is not applied to the logits
AttForwardUnmasked(net, hs, m) ==
    LET v == [i \in Agents |-> relu(Linear(net.fcv, hs[i]))]
        qq == [i \in Agents |-> relu(Linear(net.fcq, hs[i]))]
        k == [i \in Agents |-> relu(Linear(net.fck, hs[i]))]
        att == [i \in Agents |-> SoftmaxWeights([j \in Agents |-> qq[i] * k[j]])]
        out == [i \in Agents |->
                  SumOver(Agents, [j \in Agents |-> att[i][j] * v[j]])
                     \div SumOver(Agents, att[i])]
    IN  [i \in Agents |-> relu(Linear(net.fcout, out[i]))]

\* AttModel.forward:
\*   att = softmax(q.k^T * mask - 9e15 * (1 - mask), dim=2); out = relu(fcout(att.v))
AttForward(net, hs, m) ==
    LET v == [i \in Agents |-> relu(Linear(net.fcv, hs[i]))]
        qq == [i \in Agents |-> relu(Linear(net.fcq, hs[i]))]
        k == [i \in Agents |-> relu(Linear(net.fck, hs[i]))]
        att == [i \in Agents |->
                  SoftmaxWeights([j \in Agents |->
                      qq[i] * k[j] * m[i][j] - MaskBias * (1 - m[i][j])])]
        out == [i \in Agents |->
                  SumOver(Agents, [j \in Agents |-> att[i][j] * v[j]])
                     \div SumOver(Agents, att[i])]
    IN  [i \in Agents |-> relu(Linear(net.fcout, out[i]))]

\* Encoder.forward
EncoderForward(net, v) == relu(Linear(net, v))

\* Q_Net.forward: one raw action-value per action
QNetForward(net, v) == [a \in DOMAIN net |-> Linear(net[a], v)]

\* the parameters of one attention block; wq is the query weight
AttParams(wq) ==
    [fcv |-> [w |-> 1, b |-> 0], fcq |-> [w |-> wq, b |-> -5 * wq],
     fck |-> [w |-> 1, b |-> -5], fcout |-> [w |-> 1, b |-> 0]]

\* the agents constructed: those whose construction succeeds, with parameter
\* values drawn from a few of those the layers can hold
AgentObjects ==
    { [args |-> [n_agents |-> NAgents, hidden_dim |-> 1, n_actions |-> 2,
                 obs_last_action |-> FALSE, obs_agent_id |-> FALSE, type |-> "rnn"],
       encoder |-> [w |-> 6, b |-> 0],
       att_1 |-> AttParams(wq1), att_2 |-> AttParams(wq2),
       q_net |-> <<[w |-> 1, b |-> 0], [w |-> 2, b |-> 1]>>] :
       wq1 \in {0, 1}, wq2 \in {0, 1} }

\* the two runs agree on agents 0 and 1 and differ in agent 2's observation
RunPairs ==
    { [r \in Runs |-> [i \in Agents |->
          IF i = 2 THEN (IF r = "a" THEN 0 ELSE 1) ELSE o[i]]] :
       o \in [{0, 1} -> {0, 1}] }

\* every 0/1 mask that forbids agent 0 from attending to agent 2
Masks == { m \in [Agents -> [Agents -> {0, 1}]] : m[0][2] = 0 }

InitAgent ==
    /\ pc = "encoder"
    /\ exc = "none"
    /\ agent \in AgentObjects
    /\ args = agent.args
    /\ scheme = [obs |-> [vshape |-> 1], actions_onehot |-> [vshape |-> <<2>>]]
    /\ input_shape = 1
    /\ x \in RunPairs
    /\ att_mask \in Masks
    /\ h1 = Unused /\ h2 = Unused /\ h3 = Unused /\ q = Unused
    /\ UnusedParse /\ UnusedMask /\ UnusedLearner

AgentFrame ==
    UNCHANGED <<args, exc, scheme, agent, input_shape, x, att_mask,
                parseVars, maskVars, learnerVars>>

\* h1 = self.encoder(x)
ForwardEncoder ==
    /\ pc = "encoder"
    /\ h1' = [r \in Runs |-> [i \in Agents |-> EncoderForward(agent.encoder, x[r][i])]]
    /\ pc' = "att_1"
    /\ UNCHANGED <<h2, h3, q>>
    /\ AgentFrame

\* h2 = self.att_1(h1, mask)
ForwardAtt1 ==
    /\ pc = "att_1"
    /\ h2' = [r \in Runs |-> AttForward(agent.att_1, h1[r], att_mask)]
    /\ pc' = "att_2"
    /\ UNCHANGED <<h1, h3, q>>
    /\ AgentFrame

\* h3 = self.att_2(h2, mask)
ForwardAtt2 ==
    /\ pc = "att_2"
    /\ h3' = [r \in Runs |-> AttForward(agent.att_2, h2[r], att_mask)]
    /\ pc' = "q_net"
    /\ UNCHANGED <<h1, h2, q>>
    /\ AgentFrame

\* q = self.q_net(h3); return q, []
ForwardQNet ==
    /\ pc = "q_net"
    /\ q' = [r \in Runs |-> [i \in Agents |-> QNetForward(agent.q_net, h3[r][i])]]
    /\ pc' = "done"
    /\ UNCHANGED <<h1, h2, h3>>
    /\ AgentFrame

NextAgent ==
    \/ ForwardEncoder
    \/ ForwardAtt1
    \/ ForwardAtt2
    \/ ForwardQNet

SpecAgent == InitAgent /\ [][NextAgent]_vars

\* the agents row i of the mask allows
Allowed(i) == {j \in Agents : att_mask[i][j] = 1}

\* C4, as stated: whatever the remaining mask entries are, agent 0's Q-values
\* are the same in the two runs and agent 2's Q-values are not.
C4_AsStated ==
    pc = "done" => (q["a"][0] = q["b"][0] /\ q["a"][2] # q["b"][2])

\* the masks under which agent 2 is out of agent 0's reach over both attention
\* blocks: row 0 allows some agent, and if agent 0 may attend to agent 1 then
\* row 1 allows some agent and forbids agent 2
C4_NoTwoHop ==
    /\ att_mask[0][2] = 0
    /\ Allowed(0) # {}
    /\ att_mask[0][1] = 1 => (Allowed(1) # {} /\ att_mask[1][2] = 0)

\* C4, amended: with a mask that forbids agent 0 from attending to agent 2, in
\* which row 0 allows at least one agent and, if agent 0 may attend to agent 1,
\* row 1 allows at least one agent and forbids agent 2, two runs that differ
\* only in agent 2's observation give agent 0 the same embeddings after each
\* attention block and the same Q-values.
C4_NonInterference ==
    (pc = "done" /\ C4_NoTwoHop) =>
        /\ h2["a"][0] = h2["b"][0]
        /\ h3["a"][0] = h3["b"][0]
        /\ q["a"][0] = q["b"][0]

\* agent 0 attends to agent 1, agent 1 does not attend to agent 2, agent 2
\* attends to itself: agent 0's Q-values agree and agent 2's differ
C4_Witness ==
    /\ pc = "done"
    /\ C4_NoTwoHop
    /\ att_mask[0][1] = 1 /\ att_mask[2][2] = 1
    /\ x["a"][2] # x["b"][2]
    /\ q["a"][0] = q["b"][0]
    /\ q["a"][2] # q["b"][2]

(***************************************************************************)
(* SpecLearner: SeparateLearner                                            *)
(*                                                                         *)
(* Parameters are abstract: a network's state is where its values came     *)
(* from (origin) and how many optimiser steps changed them since; an       *)
(* optimiser's state is the number of steps it has taken.  The batch holds *)
(* one episode and the controller judges one peer.                         *)
(***************************************************************************)
MaxSteps == 2       \* train is not called once a step counter has reached it
MaxEpisode == 2     \* largest episode_num enumerated
MaxEnvStep == 2     \* largest t_env enumerated
TrainLen == 3       \* batch.max_seq_length of the batches enumerated

target_update_interval == 2   \* args.target_update_interval
learner_log_interval == 2     \* args.learner_log_interval
n_peers == 1                  \* args.n_peers
n_agents == 2                 \* args.n_agents; the critic's joint Q is 2 wide,
                              \* which the mask of width n_agents multiplies

\* an attribute, local or file that holds nothing is <<>>; one that holds v is <<v>>
Unbound == <<>>
Bound(v) == <<v>>
ValueOf(o) == o[1]

Paths == {"ckpt"}
Missing == <<>>

\* the file the controller's own save_models writes and load_models reads
MacFile == "agent.th"

FileNames ==
    {MacFile, "critic.th", "tar_critic.th", "identifier_critic_opt.th",
     "identifier_opt.th", "critic_opt.th", "attacker_opt.th"}

\* SeparateLearner.__init__
InitLearner ==
    /\ pc = "idle"
    /\ exc = "none"
    /\ args = [n_peers |-> n_peers, n_agents |-> n_agents,
               target_update_interval |-> target_update_interval,
               learner_log_interval |-> learner_log_interval]
    /\ critic = [origin |-> "critic", steps |-> 0]
    /\ last_target_update_episode = 0
    /\ critic_training_steps = 0
    /\ last_target_update_step = Unbound
    /\ mac = [origin |-> "mac", identifier |-> 0, attacker |-> 0]
    /\ identifier_optimiser = [steps |-> 0]
    /\ attacker_optimiser = [steps |-> 0]
    /\ critic_optimiser = [steps |-> 0]
    /\ target_mac = mac
    /\ target_critic = [origin |-> "target_critic", steps |-> 0]
    /\ log_stats_t = -learner_log_interval - 1
    /\ disk = [p \in Paths |-> [f \in FileNames |-> Missing]]
    /\ call = [op |-> "__init__", prev |-> "none"]
    /\ identifier_actions = <<>>
    /\ mask = <<>>
    /\ t = -1
    /\ running_log = Unused
    /\ critic_hidden = 0
    /\ visited = <<>>
    /\ identifier_loss = Unbound
    /\ attacker_loss = Unbound
    /\ logger = <<>>
    /\ reads = <<>>
    /\ filled = Unused /\ terminated = Unused
    /\ UnusedParse /\ UnusedAgent

\* the controller's save_models(path): its parameters go to its own file
MacSaveModels(files, m) == [files EXCEPT ![MacFile] = Bound(m)]

\* th.save(obj, "{path}/name")
ThSave(files, name, obj) == [files EXCEPT ![name] = Bound(obj)]

\* save_models
SaveModels(path) ==
    /\ pc = "idle"
    /\ LET f1 == MacSaveModels(disk[path], mac)
           f2 == ThSave(f1, "critic.th", critic)
           f3 == ThSave(f2, "tar_critic.th", target_critic)
           f4 == ThSave(f3, "identifier_critic_opt.th", identifier_optimiser)
           f5 == ThSave(f4, "critic_opt.th", critic_optimiser)
           f6 == ThSave(f5, "attacker_opt.th", attacker_optimiser)
       IN  disk' = [disk EXCEPT ![path] = f6]
    /\ call' = [op |-> "save_models", prev |-> call.op, path |-> path]
    /\ exc' = "none"
    /\ UNCHANGED <<pc, args, selfVars, netVars, mask, identifier_actions, t,
                   running_log, critic_hidden, visited, identifier_loss,
                   attacker_loss, logger, reads, filled, terminated,
                   parseVars, agentVars>>

\* the files load_models reads, in the order it reads them
LoadOrder ==
    <<MacFile, MacFile, "critic.th", "tar_critic.th", "identifier_opt.th",
      "attacker_opt.th", "critic_opt.th">>

\* how many of load_models' reads succeed before one finds no file
RECURSIVE LoadedPrefix(_, _)
LoadedPrefix(files, k) ==
    IF k > Len(LoadOrder) THEN Len(LoadOrder)
    ELSE IF files[LoadOrder[k]] = Missing THEN k - 1
    ELSE LoadedPrefix(files, k + 1)

\* load_models: each read that finds its file replaces the state it restores;
\* the first read that finds none raises and ends the call
LoadModels(path) ==
    /\ pc = "idle"
    /\ LET files == disk[path]
           n == LoadedPrefix(files, 1)
       IN  /\ mac' = IF n >= 1 THEN ValueOf(files[MacFile]) ELSE mac
           /\ target_mac' = IF n >= 2 THEN ValueOf(files[MacFile]) ELSE target_mac
           /\ critic' = IF n >= 3 THEN ValueOf(files["critic.th"]) ELSE critic
           /\ target_critic' = IF n >= 4 THEN ValueOf(files["tar_critic.th"]) ELSE target_critic
           /\ identifier_optimiser' =
                 IF n >= 5 THEN ValueOf(files["identifier_opt.th"]) ELSE identifier_optimiser
           /\ attacker_optimiser' =
                 IF n >= 6 THEN ValueOf(files["attacker_opt.th"]) ELSE attacker_optimiser
           /\ critic_optimiser' =
                 IF n >= 7 THEN ValueOf(files["critic_opt.th"]) ELSE critic_optimiser
           /\ reads' = SubSeq(LoadOrder, 1, Min(n + 1, Len(LoadOrder)))
           /\ exc' = IF n = Len(LoadOrder) THEN "none" ELSE "FileNotFoundError"
    /\ call' = [op |-> "load_models", prev |-> call.op, path |-> path]
    /\ UNCHANGED <<pc, args, selfVars, disk, mask, identifier_actions, t,
                   running_log, critic_hidden, visited, identifier_loss,
                   attacker_loss, logger, filled, terminated,
                   parseVars, agentVars>>

\* the 0-based time steps of the tensors sliced to length T-1
Steps(m) == 0..(Len(m) - 1)
Peers == 1..n_peers

\* mask_t.sum() for mask_t = mask[:, t].expand(-1, self.n_agents)
MaskTSum(m, step) == m[step + 1] * n_agents

\* mask.sum()
RECURSIVE SeqSum(_)
SeqSum(sq) == IF sq = <<>> THEN 0 ELSE Head(sq) + SeqSum(Tail(sq))

\* the names bound in _train_critic when the loop body runs
CriticLocals ==
    {"self", "batch", "rewards", "terminated", "mask", "target_critic_outs",
     "target_critic_hidden", "t", "out", "targets", "q_vals", "running_log",
     "critic_hidden", "mask_t", "q_t", "td_error", "masked_td_error", "loss",
     "grad_norm", "mask_elems"}

\* the attributes of a tensor that train uses or may use
TensorAttrs ==
    {"clone", "repeat", "float", "sum", "view", "detach", "squeeze", "size",
     "expand", "item", "abs", "backward", "shape"}

\* the identifier actions a batch may record for one peer: 2 is out of range
\* for the 2-way category
ActionValues == {0, 1, 2}

\* train, lines 43-57 and _train_critic up to its loop: the tensors are sliced
\* to length T-1, the mask is built, the running log and the critic's
\* recurrent state are initialised.  (The attacker actions decoded at line 49
\* are those of SpecParse; the decode changes nothing of the learner.)
TrainBegin(f, term, acts, t_env, episode_num) ==
    /\ pc = "idle"
    /\ critic_training_steps < MaxSteps
    /\ identifier_optimiser.steps < MaxSteps
    /\ mask' = BuildMask(f, term)
    /\ identifier_actions' = DropLast(acts)
    /\ call' = [op |-> "train", prev |-> call.op, t_env |-> t_env,
                episode_num |-> episode_num, reached |-> "critic",
                pre_steps |-> critic_training_steps,
                pre_episode |-> last_target_update_episode,
                pre_log_t |-> log_stats_t, pre_logger |-> Len(logger)]
    /\ running_log' = [critic_loss |-> 0, critic_grad_norm |-> 0,
                       td_error_abs |-> 0, target_mean |-> 0, q_taken_mean |-> 0]
    /\ critic_hidden' = 0
    /\ visited' = <<>>
    /\ t' = Len(f) - 2
    /\ identifier_loss' = Unbound
    /\ attacker_loss' = Unbound
    /\ exc' = "none"
    /\ pc' = "critic_loop"
    /\ UNCHANGED <<args, selfVars, netVars, disk, logger, reads, filled,
                   terminated, parseVars, agentVars>>

\* one iteration of `for t in reversed(range(rewards.size(1)))`
CriticLoopStep ==
    /\ pc = "critic_loop"
    /\ t >= 0
    /\ visited' = Append(visited, t)
    /\ IF MaskTSum(mask, t) = 0
       THEN \* continue
            /\ t' = t - 1
            /\ UNCHANGED <<pc, exc, call, critic, critic_optimiser,
                           critic_training_steps, critic_hidden, running_log>>
       ELSE \* forward pass, optimiser step, counter, four log samples ...
            /\ critic_hidden' = critic_hidden + 1
            /\ critic' = [critic EXCEPT !.steps = @ + 1]
            /\ critic_optimiser' = [critic_optimiser EXCEPT !.steps = @ + 1]
            /\ critic_training_steps' = critic_training_steps + 1
            /\ IF "targets_t" \in CriticLocals
               THEN \* ... and the fifth
                    /\ running_log' =
                          [n \in DOMAIN running_log |-> running_log[n] + 1]
                    /\ t' = t - 1
                    /\ UNCHANGED <<pc, exc, call>>
               ELSE \* NameError: name 'targets_t' is not defined
                    /\ running_log' =
                          [n \in DOMAIN running_log |->
                              IF n = "target_mean" THEN running_log[n]
                              ELSE running_log[n] + 1]
                    /\ t' = t
                    /\ exc' = "NameError"
                    /\ pc' = "raised"
                    /\ UNCHANGED call
    /\ UNCHANGED <<args, mask, identifier_actions, last_target_update_episode,
                   last_target_update_step, log_stats_t, mac, target_mac,
                   target_critic, identifier_optimiser, attacker_optimiser,
                   disk, identifier_loss, attacker_loss, logger, reads, filled,
                   terminated, parseVars, agentVars>>

\* chosen-action log-probabilities summed into the identifier loss: a masked
\* peer-step has its probability set to 1 and contributes log 1 = 0, so the
\* loss is made of the terms of the unmasked peer-steps, over mask.sum()
IdentifierLoss(m, acts) ==
    [terms |-> { <<sp[1], sp[2], acts[sp[1] + 1][sp[2]]>> :
                   sp \in {e \in Steps(m) \X Peers : m[e[1] + 1] # 0} },
     mask_sum |-> SeqSum(m)]

\* the attacker loss likewise, over the message slots of the unmasked steps
AttackerLoss(m) ==
    [terms |-> {step \in Steps(m) : m[step + 1] # 0}, mask_sum |-> SeqSum(m)]

\* lines 69-83: th.gather raises on an index outside the 2-way category, before
\* the mask is applied; otherwise the loss is formed and the identifier
\* optimiser steps
IdentifierPhase(st) ==
    IF \E step \in Steps(mask), p \in Peers :
           identifier_actions[step + 1][p] \notin {0, 1}
    THEN [st EXCEPT !.reached = "identifier", !.exc = "RuntimeError"]
    ELSE [st EXCEPT !.reached = "identifier",
                    !.identifier_loss = Bound(IdentifierLoss(mask, identifier_actions)),
                    !.mac.identifier = @ + 1,
                    !.identifier_optimiser.steps = @ + 1]

\* lines 85-110: attacker_mask = mask.clnoe().repeat(...) reads a tensor
\* attribute; then the loss is formed and the attacker optimiser steps
AttackerPhase(st) ==
    IF "clnoe" \notin TensorAttrs
    THEN [st EXCEPT !.reached = "attacker", !.exc = "AttributeError"]
    ELSE [st EXCEPT !.reached = "attacker",
                    !.attacker_loss = Bound(AttackerLoss(mask)),
                    !.mac.attacker = @ + 1,
                    !.attacker_optimiser.steps = @ + 1]

\* _update_targets
UpdateTargets(st) ==
    [st EXCEPT !.target_mac = st.mac,
               !.target_critic = critic,
               !.logger = Append(@, <<"console_logger.info", "Updated target network">>)]

\* lines 112-114; target_update_interval > 0, so the quotient is >= 1.0 exactly
\* when the difference reaches the interval
StepSync(st) ==
    IF st.last_target_update_step = Unbound
    THEN [st EXCEPT !.reached = "step_sync", !.exc = "AttributeError"]
    ELSE IF critic_training_steps - ValueOf(st.last_target_update_step)
                >= args.target_update_interval
         THEN [UpdateTargets(st) EXCEPT !.reached = "step_sync",
                    !.last_target_update_step = Bound(critic_training_steps)]
         ELSE [st EXCEPT !.reached = "step_sync"]

\* lines 116-118
EpisodeSync(st) ==
    IF call.episode_num - st.last_target_update_episode
           >= args.target_update_interval
    THEN [UpdateTargets(st) EXCEPT !.reached = "episode_sync",
               !.last_target_update_episode = call.episode_num]
    ELSE [st EXCEPT !.reached = "episode_sync"]

\* lines 120-125
LogStats(st) ==
    IF call.t_env - st.log_stats_t >= args.learner_log_interval
    THEN [st EXCEPT !.reached = "end",
               !.logger = @ \o << <<"identifier_actor_loss", call.t_env>>,
                                  <<"identifier_grad_norm", call.t_env>>,
                                  <<"attacker_actor_loss", call.t_env>>,
                                  <<"attacker_grad_norm", call.t_env>> >>,
               !.log_stats_t = call.t_env]
    ELSE [st EXCEPT !.reached = "end"]

\* train from line 59 on, once _train_critic has returned
TrainActors ==
    /\ pc = "critic_loop"
    /\ t < 0
    /\ LET st0 == [exc |-> "none", reached |-> "critic", mac |-> mac,
                   target_mac |-> target_mac, target_critic |-> target_critic,
                   identifier_optimiser |-> identifier_optimiser,
                   attacker_optimiser |-> attacker_optimiser,
                   identifier_loss |-> identifier_loss,
                   attacker_loss |-> attacker_loss,
                   last_target_update_step |-> last_target_update_step,
                   last_target_update_episode |-> last_target_update_episode,
                   log_stats_t |-> log_stats_t, logger |-> logger]
           \* a phase runs only if no earlier one raised
           st1 == IdentifierPhase(st0)
           st2 == IF st1.exc # "none" THEN st1 ELSE AttackerPhase(st1)
           st3 == IF st2.exc # "none" THEN st2 ELSE StepSync(st2)
           st4 == IF st3.exc # "none" THEN st3 ELSE EpisodeSync(st3)
           st  == IF st4.exc # "none" THEN st4 ELSE LogStats(st4)
       IN  /\ mac' = st.mac
           /\ target_mac' = st.target_mac
           /\ target_critic' = st.target_critic
           /\ identifier_optimiser' = st.identifier_optimiser
           /\ attacker_optimiser' = st.attacker_optimiser
           /\ identifier_loss' = st.identifier_loss
           /\ attacker_loss' = st.attacker_loss
           /\ last_target_update_step' = st.last_target_update_step
           /\ last_target_update_episode' = st.last_target_update_episode
           /\ log_stats_t' = st.log_stats_t
           /\ logger' = st.logger
           /\ exc' = st.exc
           /\ call' = [call EXCEPT !.reached = st.reached]
           /\ pc' = IF st.exc = "none" THEN "returned" ELSE "raised"
    /\ UNCHANGED <<args, mask, identifier_actions, t, running_log, critic_hidden,
                   visited, critic, critic_optimiser, critic_training_steps,
                   disk, reads, filled, terminated, parseVars, agentVars>>

\* train returns, or its exception reaches the caller: the call's locals are
\* gone, the learner keeps what the call assigned
TrainEnd ==
    /\ pc \in {"returned", "raised"}
    /\ pc' = "idle"
    /\ call' = [op |-> "train", prev |-> call.prev]
    /\ mask' = <<>>
    /\ identifier_actions' = <<>>
    /\ t' = -1
    /\ running_log' = Unused
    /\ critic_hidden' = 0
    /\ visited' = <<>>
    /\ identifier_loss' = Unbound
    /\ attacker_loss' = Unbound
    /\ UNCHANGED <<args, exc, selfVars, netVars, disk, logger, reads, filled,
                   terminated, parseVars, agentVars>>

\* the batches enumerated: one episode of TrainLen steps; train drops the last
\* step of every tensor, which is filled, not terminated and has action 0
Batches ==
    { [filled |-> Append(f, 1), terminated |-> Append(term, 0),
       identifier_action |-> Append(acts, [p \in Peers |-> 0])] :
        f \in [1..(TrainLen - 1) -> {0, 1}],
        term \in [1..(TrainLen - 1) -> {0, 1}],
        acts \in [1..(TrainLen - 1) -> [Peers -> ActionValues]] }

NextLearner ==
    \/ \E batch \in Batches, t_env \in 0..MaxEnvStep, episode_num \in 0..MaxEpisode :
          TrainBegin(batch.filled, batch.terminated, batch.identifier_action,
                     t_env, episode_num)
    \/ CriticLoopStep
    \/ TrainActors
    \/ TrainEnd
    \/ \E path \in Paths : SaveModels(path)
    \/ \E path \in Paths : LoadModels(path)

SpecLearner == InitLearner /\ [][NextLearner]_vars

Spec == SpecLearner

(***************************************************************************)
(* The learner's claims                                                    *)
(***************************************************************************)
\* a train call has ended, by returning or by raising, and its frame is
\* still there to look at
TrainEnded == pc \in {"returned", "raised"} /\ call.op = "train"

\* the files save_models wrote under the path of the last call
Saved == disk[call.path]

\* C1: save_models(path) followed by load_models(path) succeeds, every file
\* load_models reads is one save_models wrote, and afterwards the two critics
\* and the three optimisers hold the saved state and the target controller
\* holds the saved online controller.
C1_CheckpointRoundTrip ==
    (pc = "idle" /\ call.op = "load_models" /\ call.prev = "save_models") =>
        /\ exc = "none"
        /\ \A i \in 1..Len(reads) : Saved[reads[i]] # Missing
        /\ critic = ValueOf(Saved["critic.th"])
        /\ target_critic = ValueOf(Saved["tar_critic.th"])
        /\ identifier_optimiser = ValueOf(Saved["identifier_critic_opt.th"])
        /\ attacker_optimiser = ValueOf(Saved["attacker_opt.th"])
        /\ critic_optimiser = ValueOf(Saved["critic_opt.th"])
        /\ target_mac = ValueOf(Saved[MacFile])

\* C2: a train call with episode index e synchronises the targets and sets
\* last_target_update_episode to e when e - last_target_update_episode >=
\* target_update_interval, and leaves last_target_update_episode alone
\* otherwise.
C2_EpisodeSync ==
    TrainEnded =>
        IF call.episode_num - call.pre_episode >= args.target_update_interval
        THEN /\ last_target_update_episode = call.episode_num
             /\ target_mac = mac
             /\ target_critic = critic
        ELSE last_target_update_episode = call.pre_episode

\* the log_stat calls the train call made
Emitted == SubSeq(logger, call.pre_logger + 1, Len(logger))

FourMetrics ==
    {"identifier_actor_loss", "identifier_grad_norm", "attacker_actor_loss",
     "attacker_grad_norm"}

\* C3: a train call emits the four metrics exactly when t_env - log_stats_t >=
\* learner_log_interval (always on the first call), sets log_stats_t to t_env
\* when it emits and leaves it unchanged when it does not.
C3_LogWatermark ==
    TrainEnded =>
        IF call.t_env - call.pre_log_t >= args.learner_log_interval
        THEN /\ \A m \in FourMetrics :
                   \E i \in 1..Len(Emitted) : Emitted[i] = <<m, call.t_env>>
             /\ log_stats_t = call.t_env
        ELSE /\ \A i \in 1..Len(Emitted) : Emitted[i][1] \notin FourMetrics
             /\ log_stats_t = call.pre_log_t

\* the recorded identifier actions with every padded entry zeroed
ZeroPadded(m, acts) ==
    [i \in 1..Len(acts) |-> IF m[i] = 0 THEN [p \in Peers |-> 0] ELSE acts[i]]

\* C6: whatever action values the padded entries record, a train call whose
\* critic phase has completed forms both losses, and they are the losses of
\* the same batch with the padded entries zeroed.
C6_MaskNeutrality ==
    (TrainEnded /\ exc # "NameError") =>
        /\ identifier_loss =
              Bound(IdentifierLoss(mask, ZeroPadded(mask, identifier_actions)))
        /\ attacker_loss = Bound(AttackerLoss(mask))

\* the number of time steps whose mask sum is not zero
NonZeroSteps == Cardinality({step \in Steps(mask) : MaskTSum(mask, step) # 0})

\* the critic loop is over: train has ended or is about to go on to the actors
CriticLoopOver == TrainEnded \/ (pc = "critic_loop" /\ t < 0)

\* C8: one _train_critic call visits the T-1 steps in strictly decreasing
\* order and runs to completion; it makes one forward pass and one optimiser
\* step per step with a non-zero mask sum and none for the others, so
\* critic_training_steps grows by the number of non-zero-mask steps and each
\* of the five running-log sequences gets that many samples.
C8_CriticLoop ==
    CriticLoopOver =>
        /\ exc # "NameError"
        /\ visited = [i \in 1..Len(mask) |-> Len(mask) - i]
        /\ critic_hidden = NonZeroSteps
        /\ critic_training_steps = call.pre_steps + NonZeroSteps
        /\ \A n \in DOMAIN running_log : running_log[n] = NonZeroSteps

\* C10: the learner holds, from construction on, the critic step count of the
\* last step-keyed synchronisation, so that on every train call, the first
\* one included, the step-keyed check is evaluated on a bound
\* last_target_update_step and, when it holds, sets it to
\* critic_training_steps.
C10_StepSync ==
    TrainEnded =>
        /\ last_target_update_step # Unbound
        /\ call.reached \in {"step_sync", "episode_sync", "end"}
        /\ (call.pre_steps >= args.target_update_interval
               => last_target_update_step = Bound(critic_training_steps))

====
